---- MODULE Spec2Model ----
(***************************************************************************)
(* A model of probe-rs/target-gen: the aggregation of the devices of       *)
(* CMSIS-Pack descriptors into a registry of chip families.                *)
(*                                                                         *)
(*   src/src/generate.rs  handle_package, get_ram, visit_dirs,             *)
(*                        visit_arm_files, visit_arm_file                  *)
(*   src/src/main.rs      main (the aggregation closure) and visit_dirs    *)
(*                                                                         *)
(* Option<T> is a sequence of length 0 (None) or 1 (Some).  A String that  *)
(* the code compares or lowercases is a sequence of characters.            *)
(***************************************************************************)
EXTENDS Integers, Sequences, FiniteSets, TLC

VARIABLES
    mode,       \* which entry point runs: "none", "remote", "dir", "main"
    status,     \* "idle", "running", "ok", "err", "panic"
    families,   \* the registry, Vec<ChipFamily>
    packs,      \* remote mode: the list list_packs() returned
    i,          \* remote mode: index of the next pack of the for loop
    tree,       \* local mode: the directory tree that is walked
    stack,      \* local mode: the frames of the recursive visit_dirs calls
    started,    \* history: one entry per package handed to the aggregator
    errors,     \* history: the log::error! entries of visit_arm_file
    agg,        \* comparison runs: the aggregator, "handle_package" or "main"
    shape,      \* comparison runs: "split" or "joint" (see InitPair)
    reg0,       \* comparison runs: the registry both runs start from
    A,          \* comparison runs: the first run
    B           \* comparison runs: the second run

svars == <<mode, status, families, packs, i, tree, stack, started, errors>>

pvars == <<agg, shape, reg0, A, B>>

vars == <<svars, pvars>>

(***************************************************************************)
(* Strings                                                                 *)
(***************************************************************************)

\* The byte value of the characters that occur in the names of the model.
Ascii ==
    [c \in {"1", "2", "3", "4", "5", "A", "B", "D", "a", "b", "d"} |->
        CASE c = "1" -> 49 [] c = "2" -> 50 [] c = "3" -> 51
          [] c = "4" -> 52 [] c = "5" -> 53
          [] c = "A" -> 65 [] c = "B" -> 66 [] c = "D" -> 68
          [] c = "a" -> 97 [] c = "b" -> 98 [] c = "d" -> 100]

\* char::to_lowercase on the characters of the model.
LowerChar(c) ==
    IF Ascii[c] >= 65 /\ Ascii[c] <= 90
    THEN CHOOSE l \in DOMAIN Ascii : Ascii[l] = Ascii[c] + 32
    ELSE c

\* str::to_lowercase.
to_lowercase(s) == [k \in 1..Len(s) |-> LowerChar(s[k])]

\* String::cmp: bytewise lexicographic order; -1, 0 or 1.
RECURSIVE StrCmp(_, _)
StrCmp(a, b) ==
    IF a = <<>> /\ b = <<>> THEN 0
    ELSE IF a = <<>> THEN -1
    ELSE IF b = <<>> THEN 1
    ELSE IF Ascii[Head(a)] < Ascii[Head(b)] THEN -1
    ELSE IF Ascii[Head(a)] > Ascii[Head(b)] THEN 1
    ELSE StrCmp(Tail(a), Tail(b))

(***************************************************************************)
(* Region selection and core mapping                                       *)
(***************************************************************************)

\* memory.start as u32 .. memory.start as u32 + memory.size as u32, as the
\* pair of its bounds.  The addresses of the model lie below 2^31, where the
\* casts and the sum are exact.
Range(memory) == <<memory.start, memory.start + memory.size>>

IsRamMemory(memory) == memory.default /\ memory.access.read /\ memory.access.write

\* generate.rs get_ram: the first memory that is default, readable and
\* writable, in the iteration order of device.memories.
get_ram(device) ==
    LET found == SelectSeq(device.memories, IsRamMemory)
    IN  IF found = <<>> THEN <<>>
        ELSE <<[range |-> Range(found[1]), is_boot_memory |-> found[1].startup]>>

IsFlashMemory(memory) ==
    /\ memory.default
    /\ memory.access.read
    /\ memory.access.execute
    /\ ~memory.access.write

\* generate.rs handle_package, "Extract the flash info from the .pdsc file".
get_flash(device) ==
    LET found == SelectSeq(device.memories, IsFlashMemory)
    IN  IF found = <<>> THEN <<>>
        ELSE <<[range |-> Range(found[1]), is_boot_memory |-> found[1].startup]>>

\* generate.rs handle_package, "Get the core type": ok is FALSE where the
\* code bails.
CoreType(processor) ==
    IF processor.kind = "Symmetric"
    THEN CASE processor.core = "CortexM0"     -> [ok |-> TRUE, core |-> "M0"]
           [] processor.core = "CortexM0Plus" -> [ok |-> TRUE, core |-> "M0"]
           [] processor.core = "CortexM4"     -> [ok |-> TRUE, core |-> "M4"]
           [] processor.core = "CortexM3"     -> [ok |-> TRUE, core |-> "M3"]
           [] processor.core = "CortexM33"    -> [ok |-> TRUE, core |-> "M33"]
           [] processor.core = "CortexM7"     -> [ok |-> TRUE, core |-> "M7"]
           [] OTHER                           -> [ok |-> FALSE, core |-> ""]
    ELSE [ok |-> TRUE, core |-> ""]

(***************************************************************************)
(* Flash algorithm extraction                                              *)
(***************************************************************************)

\* crate::parser::extract_flash_algo on a member that could be opened: the
\* record of a well-formed image, named after the file, or an error.
extract_flash_algo(algorithm) ==
    IF algorithm.member = "ok"
    THEN <<[name    |-> to_lowercase(algorithm.file_name),
            default |-> algorithm.default]>>
    ELSE <<>>

\* The closure of handle_package's map: archive.by_name(..)? or
\* File::open(..)? and then extract_flash_algo(..)?; an Err of either is an
\* Err of the closure.
ExtractOne(algorithm) ==
    IF algorithm.member = "absent" THEN <<>> ELSE extract_flash_algo(algorithm)

\* map, filter_map and collect: the algorithms that were extracted, in the
\* order of device.algorithms; the failures are logged and dropped.
RECURSIVE variant_flash_algorithms(_)
variant_flash_algorithms(algorithms) ==
    IF algorithms = <<>> THEN <<>>
    ELSE ExtractOne(Head(algorithms)) \o variant_flash_algorithms(Tail(algorithms))

(***************************************************************************)
(* handle_package (generate.rs)                                            *)
(***************************************************************************)

\* families.iter_mut().find(|family| family.name == device.family): the
\* index of the first family of that name, 0 when there is none.
FindFamily(fams, name) ==
    IF \E k \in 1..Len(fams) : fams[k].name = name
    THEN CHOOSE k \in 1..Len(fams) :
            /\ fams[k].name = name
            /\ \A j \in 1..(k - 1) : fams[j].name # name
    ELSE 0

\* devices.sort_by(|a, b| a.0.cmp(&b.0)): a stable sort by device name.
InsertByName(sorted, device) ==
    LET before == Cardinality({k \in 1..Len(sorted) :
                        StrCmp(sorted[k].name, device.name) <= 0})
    IN  SubSeq(sorted, 1, before) \o <<device>>
            \o SubSeq(sorted, before + 1, Len(sorted))

RECURSIVE SortedByName(_)
SortedByName(devices) ==
    IF devices = <<>> THEN <<>>
    ELSE InsertByName(SortedByName(SubSeq(devices, 1, Len(devices) - 1)),
                      devices[Len(devices)])

\* SortDevices without the sort: the devices as the collection yields them.
SortDevicesUnsorted(devices) == devices

SortDevices(devices) == SortedByName(devices)

\* PushAlgorithms that leaves a family that has algorithms as it is: the
\* algorithms of the first device of a family stand for the family.
PushAlgorithmsFirstOnly(family_algorithms, algorithms) ==
    IF family_algorithms = <<>> THEN algorithms ELSE family_algorithms

\* for fa in variant_flash_algorithms { family.flash_algorithms.push(fa) }
PushAlgorithms(family_algorithms, algorithms) == family_algorithms \o algorithms

\* The memory map of a chip: the Ram entry, then the Flash entry, each only
\* when a region was selected.
MemoryMap(ram, flash) ==
    (IF ram # <<>> THEN <<[kind |-> "Ram", region |-> ram[1]]>> ELSE <<>>)
        \o (IF flash # <<>> THEN <<[kind |-> "Flash", region |-> flash[1]]>>
            ELSE <<>>)

\* One iteration of the loop over the devices.  ok is FALSE when the
\* iteration left handle_package with bail!; the registry is then as the
\* iteration found it.
HandleDevice(fams, device) ==
    LET ram   == get_ram(device)
        algos == variant_flash_algorithms(device.algorithms)
        flash == get_flash(device)
        core  == CoreType(device.processor)
    IN  IF ~core.ok THEN [ok |-> FALSE, families |-> fams]
        ELSE
        LET found == FindFamily(fams, device.family)
            fams1 == IF found # 0 THEN fams
                     ELSE Append(fams, [name             |-> device.family,
                                        manufacturer     |-> <<>>,
                                        variants         |-> <<>>,
                                        core             |-> core.core,
                                        flash_algorithms |-> <<>>])
            k     == IF found # 0 THEN found ELSE Len(fams1)
            flash_algorithm_names ==
                [n \in 1..Len(algos) |-> to_lowercase(algos[n].name)]
            chip  == [name             |-> device.name,
                      part             |-> <<>>,
                      memory_map       |-> MemoryMap(ram, flash),
                      flash_algorithms |-> flash_algorithm_names]
        IN  [ok |-> TRUE,
             families |->
                [fams1 EXCEPT
                    ![k].flash_algorithms = PushAlgorithms(@, algos),
                    ![k].variants = Append(@, chip)]]

\* The loop over the sorted devices; the first bail! ends it.
RECURSIVE HandleDevices(_, _)
HandleDevices(fams, devices) ==
    IF devices = <<>> THEN [ok |-> TRUE, families |-> fams]
    ELSE LET r == HandleDevice(fams, Head(devices))
         IN  IF ~r.ok THEN r ELSE HandleDevices(r.families, Tail(devices))

\* handle_package(pdsc, kind, families): pdsc.devices in the iteration order
\* of the collection.  The result is Ok or Err together with the registry
\* the call leaves behind.
handle_package(fams, devices) == HandleDevices(fams, SortDevices(devices))

(***************************************************************************)
(* The aggregation closure of main (main.rs)                               *)
(***************************************************************************)

\* main.rs, "Extract the RAM info from the .pdsc file".
MainRam(device) ==
    LET found == SelectSeq(device.memories, IsRamMemory)
    IN  IF found = <<>> THEN <<>>
        ELSE <<[range |-> Range(found[1]), is_boot_memory |-> found[1].startup]>>

\* The geometry extract_flash_algo returned last: page_size, sector_size and
\* erased_byte_value are assigned by each extraction that succeeds.
RECURSIVE MainGeometry(_, _)
MainGeometry(algorithms, geometry) ==
    IF algorithms = <<>> THEN geometry
    ELSE MainGeometry(Tail(algorithms),
                      IF Head(algorithms).member = "ok"
                      THEN Head(algorithms).geometry ELSE geometry)

MainIsFlashMemory(memory) ==
    memory.default /\ memory.access.read /\ memory.access.execute

\* main.rs, "Extract the flash info from the .pdsc file".
MainFlash(device) ==
    LET found == SelectSeq(device.memories, MainIsFlashMemory)
        geometry == MainGeometry(device.algorithms,
                        [page_size |-> 0, sector_size |-> 0,
                         erased_byte_value |-> 255])
    IN  IF found = <<>> THEN <<>>
        ELSE <<[range             |-> Range(found[1]),
                is_boot_memory    |-> found[1].startup,
                sector_size       |-> geometry.sector_size,
                page_size         |-> geometry.page_size,
                erased_byte_value |-> geometry.erased_byte_value]>>

\* main.rs, "Get the core type": every other core is logged and mapped to "".
MainCoreType(processor) ==
    IF processor.kind = "Symmetric"
    THEN CASE processor.core = "CortexM0"     -> "M0"
           [] processor.core = "CortexM0Plus" -> "M0"
           [] processor.core = "CortexM4"     -> "M4"
           [] processor.core = "CortexM3"     -> "M3"
           [] OTHER                           -> ""
    ELSE ""

\* archive.by_name(..).unwrap() and File::open(..).unwrap(): a member that is
\* not there panics.
MainOpenPanics(device) ==
    \E k \in 1..Len(device.algorithms) : device.algorithms[k].member = "absent"

\* One iteration of the closure's loop over pdsc.devices.0.  The family is
\* created with the algorithms of the device that creates it; a device
\* without a selected Ram or Flash region panics at unwrap().
MainDevice(fams, device) ==
    LET found == FindFamily(fams, device.family)
        ram   == MainRam(device)
        flash == MainFlash(device)
        core  == MainCoreType(device.processor)
    IN  IF MainOpenPanics(device) THEN [status |-> "panic", families |-> fams]
        ELSE
        LET algos == variant_flash_algorithms(device.algorithms)
            fams1 == IF found # 0 THEN fams
                     ELSE Append(fams, [name             |-> device.family,
                                        flash_algorithms |-> algos,
                                        core             |-> core,
                                        variants         |-> <<>>])
            k     == IF found # 0 THEN found ELSE Len(fams1)
        IN  IF ram = <<>> \/ flash = <<>>
            THEN [status |-> "panic", families |-> fams1]
            ELSE [status |-> "ok",
                  families |->
                    [fams1 EXCEPT ![k].variants =
                        Append(@, [name       |-> device.name,
                                   memory_map |->
                                      <<[kind |-> "Ram", region |-> ram[1]],
                                        [kind |-> "Flash", region |-> flash[1]]>>])]]

\* The closure: the devices in the iteration order of pdsc.devices.0.
RECURSIVE MainCallback(_, _)
MainCallback(fams, devices) ==
    IF devices = <<>> THEN [status |-> "ok", families |-> fams]
    ELSE LET r == MainDevice(fams, Head(devices))
         IN  IF r.status = "panic" THEN r
             ELSE MainCallback(r.families, Tail(devices))

(***************************************************************************)
(* The inputs: memories, algorithm files, devices, descriptors, packs      *)
(***************************************************************************)

Access(r, w, x) == [read |-> r, write |-> w, execute |-> x]

IRAM1 == [name |-> "IRAM1", default |-> TRUE, access |-> Access(TRUE, TRUE, FALSE),
          startup |-> FALSE, start |-> 536870912, size |-> 4096]
IRAM2 == [name |-> "IRAM2", default |-> TRUE, access |-> Access(TRUE, TRUE, TRUE),
          startup |-> FALSE, start |-> 536875008, size |-> 4096]
IROM1 == [name |-> "IROM1", default |-> TRUE, access |-> Access(TRUE, FALSE, TRUE),
          startup |-> TRUE, start |-> 134217728, size |-> 65536]
XRAM  == [name |-> "XRAM", default |-> FALSE, access |-> Access(TRUE, TRUE, FALSE),
          startup |-> FALSE, start |-> 1610612736, size |-> 4096]

\* A flash algorithm reference of a device, with what the pack holds for it:
\* member is "ok" (a well-formed image), "invalid" (a member the extractor
\* rejects) or "absent" (no such member or file).
Algorithm(file_name, member) ==
    [file_name |-> file_name, default |-> TRUE, member |-> member,
     geometry |-> [page_size |-> 1024, sector_size |-> 2048,
                   erased_byte_value |-> 255]]

AlgoAb      == Algorithm(<<"A", "b">>, "ok")
AlgoAB      == Algorithm(<<"A", "B">>, "ok")
AlgoB       == Algorithm(<<"B">>, "ok")
AlgoAbsent  == Algorithm(<<"D", "a">>, "absent")
AlgoInvalid == Algorithm(<<"D", "b">>, "invalid")

Symmetric(core) == [kind |-> "Symmetric", core |-> core]
Asymmetric == [kind |-> "Asymmetric", core |-> ""]

Device(name, family, memories, algorithms, processor) ==
    [name |-> name, family |-> family, memories |-> memories,
     algorithms |-> algorithms, processor |-> processor]

\* Ram and Flash regions, one algorithm.
D1 == Device(<<"D", "1">>, "F", <<IRAM1, IROM1>>, <<AlgoAb>>,
             Symmetric("CortexM4"))
\* The only default writable region is also executable; two algorithms, one
\* of them D1's under another spelling.
D2 == Device(<<"D", "2">>, "F", <<IROM1, IRAM2>>, <<AlgoAB, AlgoB>>,
             Symmetric("CortexM0Plus"))
\* A core outside the table of handle_package.
D2b == Device(<<"D", "2", "b">>, "F", <<IRAM1, IROM1>>, <<AlgoB>>,
              Symmetric("CortexM23"))
\* No default writable region.
D3 == Device(<<"D", "3">>, "F", <<XRAM, IROM1>>, <<AlgoB>>,
             Symmetric("CortexM7"))
\* An absent and an invalid algorithm file next to a good one.
D4 == Device(<<"D", "4">>, "G", <<IRAM1, IROM1>>,
             <<AlgoAbsent, AlgoInvalid, AlgoB>>, Symmetric("CortexM3"))
\* An asymmetric processor, no algorithm.
D5 == Device(<<"d", "5">>, "G", <<IROM1, IRAM1>>, <<>>, Asymmetric)

Devices == {D1, D2, D2b, D3, D4, D5}

\* The device collections of the descriptors, each in the iteration order of
\* pdsc.devices.0.
Packages ==
    {<<D1>>, <<D2, D1>>, <<D3>>, <<D4>>, <<D2b, D1>>, <<D4, D2b>>, <<D5, D2>>,
     <<D3, D2b>>}

\* A pack of the remote list: how far visit_arm_file gets with it, and the
\* devices of its descriptor.
Pack(PackUrl, stage, devices) ==
    [PackUrl |-> PackUrl, stage |-> stage, devices |-> devices]

Stages == {"download", "bytes", "zip", "find_pdsc", "read", "parse"}

PackCatalog ==
    {Pack("http", "ok", devices) : devices \in Packages}
        \cup {Pack("relative", stage, <<D2, D1>>) : stage \in Stages}

\* The longest list list_packs() returns in the model.
MaxPacks == 2

RECURSIVE SeqsUpTo(_, _)
SeqsUpTo(S, n) ==
    IF n = 0 THEN {<<>>}
    ELSE LET shorter == SeqsUpTo(S, n - 1)
         IN  shorter \cup {Append(s, x) : s \in shorter, x \in S}

PackLists == SeqsUpTo(PackCatalog, MaxPacks)

(***************************************************************************)
(* Remote mode: visit_arm_files and visit_arm_file (generate.rs)           *)
(***************************************************************************)

\* The url visit_arm_file downloads from.
Url(pack) ==
    IF pack.PackUrl = "http" THEN <<pack.PackUrl>>
    ELSE <<"https://keilpack.azureedge.net/pack/", pack.PackUrl>>

\* visit_arm_file(families, pack): each step that fails logs an error and
\* returns; an Err of handle_package is logged.  handled tells whether
\* handle_package was called.
visit_arm_file(fams, pack) ==
    IF pack.stage # "ok"
    THEN [families |-> fams, handled |-> FALSE,
          error |-> <<[url |-> Url(pack), at |-> pack.stage]>>]
    ELSE LET r == handle_package(fams, pack.devices)
         IN  [families |-> r.families, handled |-> TRUE,
              error |-> IF r.ok THEN <<>>
                        ELSE <<[url |-> Url(pack), at |-> "handle_package"]>>]

\* let packs = crate::fetch::list_packs()?
VisitArmFilesListPacks ==
    /\ mode = "none"
    /\ mode' = "remote"
    /\ \/ /\ status' = "err"
          /\ UNCHANGED <<packs, i>>
       \/ /\ packs' \in PackLists
          /\ i' = 1
          /\ status' = "running"
    /\ UNCHANGED <<families, tree, stack, started, errors>>
    /\ UNCHANGED pvars

\* VisitArmFilesIter with a failure of visit_arm_file propagated to
\* visit_arm_files, as visit_dirs propagates those of handle_package.
VisitArmFilesIterPropagating ==
    /\ mode = "remote" /\ status = "running"
    /\ i <= Len(packs)
    /\ LET r == visit_arm_file(families, packs[i])
       IN  /\ families' = r.families
           /\ errors' = IF r.error = <<>> THEN errors
                        ELSE Append(errors, [unit |-> i, entry |-> r.error[1]])
           /\ started' = IF r.handled
                         THEN Append(started, [unit    |-> <<0, i>>,
                                               devices |-> packs[i].devices])
                         ELSE started
           /\ status' = IF r.error = <<>> THEN status ELSE "err"
    /\ i' = i + 1
    /\ UNCHANGED <<mode, packs, tree, stack>>
    /\ UNCHANGED pvars

\* One iteration of the for loop: visit_arm_file(families, &pack).
VisitArmFilesIter ==
    /\ mode = "remote" /\ status = "running"
    /\ i <= Len(packs)
    /\ LET r == visit_arm_file(families, packs[i])
       IN  /\ families' = r.families
           /\ errors' = IF r.error = <<>> THEN errors
                        ELSE Append(errors, [unit |-> i, entry |-> r.error[1]])
           /\ started' = IF r.handled
                         THEN Append(started, [unit    |-> <<0, i>>,
                                               devices |-> packs[i].devices])
                         ELSE started
    /\ i' = i + 1
    /\ UNCHANGED <<mode, status, packs, tree, stack>>
    /\ UNCHANGED pvars

\* The loop is over: Ok(()).
VisitArmFilesReturn ==
    /\ mode = "remote" /\ status = "running"
    /\ i > Len(packs)
    /\ status' = "ok"
    /\ UNCHANGED <<mode, families, packs, i, tree, stack, started, errors>>
    /\ UNCHANGED pvars

(***************************************************************************)
(* Local mode: the directory trees                                         *)
(***************************************************************************)

File(extension, parse_ok, devices) ==
    [extension |-> extension, parse_ok |-> parse_ok, devices |-> devices]

\* What a directory holds besides its subdirectories: whether read_dir
\* succeeds on it, and its files.
DirContents ==
    {[readable |-> TRUE, files |-> <<>>],
     [readable |-> TRUE,
      files |-> <<File("pdsc", TRUE, <<D1>>), File("txt", TRUE, <<>>)>>],
     [readable |-> TRUE,
      files |-> <<File("pdsc", TRUE, <<D2b, D1>>),
                  File("pdsc", TRUE, <<D3, D2b>>)>>],
     [readable |-> TRUE,
      files |-> <<File("pdsc", FALSE, <<D2>>), File("pdsc", TRUE, <<D4>>),
                  File("", TRUE, <<>>)>>],
     [readable |-> FALSE, files |-> <<>>]}

\* The largest number of directories of a tree in the model.
MaxDirs == 3

\* The trees of n directories: directory 1 is the root, every other
\* directory lies in a directory of a smaller number.
TreesOf(n) ==
    {[n |-> n, parent |-> parent, content |-> content] :
        parent \in {p \in [2..n -> 1..n] : \A d \in 2..n : p[d] < d},
        content \in [1..n -> DirContents]}

Trees == UNION {TreesOf(n) : n \in 1..MaxDirs}

\* The entries fs::read_dir yields for a directory, in no particular order.
Entries(t, dir) ==
    {[kind |-> "dir", id |-> d] : d \in {c \in 2..t.n : t.parent[c] = dir}}
        \cup {[kind |-> "file", id |-> f] :
                f \in 1..Len(t.content[dir].files)}

Frame(t, dir) == [dir |-> dir, pending |-> Entries(t, dir)]

Top == stack[Len(stack)]

Pop == SubSeq(stack, 1, Len(stack) - 1)

\* The frame on top with entry e taken from the iterator.
Taken(e) == [stack EXCEPT ![Len(stack)].pending = @ \ {e}]

\* The descriptor files of a tree, each as <<directory, index>>.
Descriptors(t) ==
    UNION {{<<d, f>> : f \in {g \in 1..Len(t.content[d].files) :
                                t.content[d].files[g].extension = "pdsc"}} :
           d \in 1..t.n}

(***************************************************************************)
(* visit_dirs (generate.rs)                                                *)
(***************************************************************************)

\* visit_dirs(path, families) on the root: fs::read_dir(path)?
VisitDirsStart ==
    /\ mode = "none"
    /\ mode' = "dir"
    /\ tree' \in Trees
    /\ IF tree'.content[1].readable
       THEN status' = "running" /\ stack' = <<Frame(tree', 1)>>
       ELSE status' = "err" /\ stack' = <<>>
    /\ UNCHANGED <<families, packs, i, started, errors>>
    /\ UNCHANGED pvars

\* VisitDirsRecurse without the recursion: a directory entry is passed over
\* like a file that is no descriptor.
VisitDirsNoRecursion ==
    /\ mode = "dir" /\ status = "running" /\ stack # <<>>
    /\ \E e \in Top.pending :
        /\ e.kind = "dir"
        /\ stack' = Taken(e)
        /\ status' = status
    /\ UNCHANGED <<mode, families, packs, i, tree, started, errors>>
    /\ UNCHANGED pvars

\* An entry that is a directory: visit_dirs(&entry_path, families)?
VisitDirsRecurse ==
    /\ mode = "dir" /\ status = "running" /\ stack # <<>>
    /\ \E e \in Top.pending :
        /\ e.kind = "dir"
        /\ IF tree.content[e.id].readable
           THEN stack' = Append(Taken(e), Frame(tree, e.id)) /\ status' = status
           ELSE stack' = <<>> /\ status' = "err"
    /\ UNCHANGED <<mode, families, packs, i, tree, started, errors>>
    /\ UNCHANGED pvars

\* An entry that is a file: a .pdsc file is parsed and handed to
\* handle_package, and an Err of either leaves visit_dirs; any other file
\* is passed over.
VisitDirsFile ==
    /\ mode = "dir" /\ status = "running" /\ stack # <<>>
    /\ \E e \in Top.pending :
        /\ e.kind = "file"
        /\ LET file == tree.content[Top.dir].files[e.id]
           IN  IF file.extension # "pdsc"
               THEN /\ stack' = Taken(e)
                    /\ UNCHANGED <<status, families, started>>
               ELSE IF ~file.parse_ok
               THEN /\ stack' = <<>> /\ status' = "err"
                    /\ UNCHANGED <<families, started>>
               ELSE LET r == handle_package(families, file.devices)
                    IN  /\ families' = r.families
                        /\ started' = Append(started,
                                        [unit    |-> <<Top.dir, e.id>>,
                                         devices |-> file.devices])
                        /\ IF r.ok
                           THEN stack' = Taken(e) /\ status' = status
                           ELSE stack' = <<>> /\ status' = "err"
    /\ UNCHANGED <<mode, packs, i, tree, errors>>
    /\ UNCHANGED pvars

\* The iterator of the directory on top is exhausted: Ok(()).
VisitDirsReturn ==
    /\ mode = "dir" /\ status = "running" /\ stack # <<>>
    /\ Top.pending = {}
    /\ stack' = Pop
    /\ status' = IF Len(stack) = 1 THEN "ok" ELSE status
    /\ UNCHANGED <<mode, families, packs, i, tree, started, errors>>
    /\ UNCHANGED pvars

(***************************************************************************)
(* visit_dirs and main (main.rs)                                           *)
(***************************************************************************)

\* visit_dirs(Path::new(&in_dir), ..).unwrap() on a directory: an Err of
\* fs::read_dir(path)? panics at the unwrap.
MainVisitDirsStart ==
    /\ mode = "none"
    /\ mode' = "main"
    /\ tree' \in Trees
    /\ IF tree'.content[1].readable
       THEN status' = "running" /\ stack' = <<Frame(tree', 1)>>
       ELSE status' = "panic" /\ stack' = <<>>
    /\ UNCHANGED <<families, packs, i, started, errors>>
    /\ UNCHANGED pvars

\* An entry that is a directory: visit_dirs(&path, cb)?
MainVisitDirsRecurse ==
    /\ mode = "main" /\ status = "running" /\ stack # <<>>
    /\ \E e \in Top.pending :
        /\ e.kind = "dir"
        /\ IF tree.content[e.id].readable
           THEN stack' = Append(Taken(e), Frame(tree, e.id)) /\ status' = status
           ELSE stack' = <<>> /\ status' = "panic"
    /\ UNCHANGED <<mode, families, packs, i, tree, started, errors>>
    /\ UNCHANGED pvars

\* An entry that is a file: cb(Package::from_path(..).unwrap(), None)?
MainVisitDirsFile ==
    /\ mode = "main" /\ status = "running" /\ stack # <<>>
    /\ \E e \in Top.pending :
        /\ e.kind = "file"
        /\ LET file == tree.content[Top.dir].files[e.id]
           IN  IF file.extension # "pdsc"
               THEN /\ stack' = Taken(e)
                    /\ UNCHANGED <<status, families, started>>
               ELSE IF ~file.parse_ok
               THEN /\ stack' = <<>> /\ status' = "panic"
                    /\ UNCHANGED <<families, started>>
               ELSE LET r == MainCallback(families, file.devices)
                    IN  /\ families' = r.families
                        /\ started' = Append(started,
                                        [unit    |-> <<Top.dir, e.id>>,
                                         devices |-> file.devices])
                        /\ IF r.status = "ok"
                           THEN stack' = Taken(e) /\ status' = status
                           ELSE stack' = <<>> /\ status' = "panic"
    /\ UNCHANGED <<mode, packs, i, tree, errors>>
    /\ UNCHANGED pvars

\* The iterator of the directory on top is exhausted: Ok(()).
MainVisitDirsReturn ==
    /\ mode = "main" /\ status = "running" /\ stack # <<>>
    /\ Top.pending = {}
    /\ stack' = Pop
    /\ status' = IF Len(stack) = 1 THEN "ok" ELSE status
    /\ UNCHANGED <<mode, families, packs, i, tree, started, errors>>
    /\ UNCHANGED pvars

(***************************************************************************)
(* The specification                                                       *)
(***************************************************************************)

\* let mut families = Vec::<ChipFamily>::new(), and nothing has run.
Init ==
    /\ mode = "none"
    /\ status = "idle"
    /\ families = <<>>
    /\ packs = <<>>
    /\ i = 0
    /\ tree = [n |-> 0, parent |-> <<>>, content |-> <<>>]
    /\ stack = <<>>
    /\ started = <<>>
    /\ errors = <<>>
    /\ agg = "none"
    /\ shape = "none"
    /\ reg0 = <<>>
    /\ A = [run |-> <<>>, pos |-> 1, families |-> <<>>, status |-> "idle"]
    /\ B = [run |-> <<>>, pos |-> 1, families |-> <<>>, status |-> "idle"]

Next ==
    \/ VisitArmFilesListPacks
    \/ VisitArmFilesIter
    \/ VisitArmFilesReturn
    \/ VisitDirsStart
    \/ VisitDirsRecurse
    \/ VisitDirsFile
    \/ VisitDirsReturn
    \/ MainVisitDirsStart
    \/ MainVisitDirsRecurse
    \/ MainVisitDirsFile
    \/ MainVisitDirsReturn

Spec == Init /\ [][Next]_vars

(***************************************************************************)
(* Properties of the runs                                                  *)
(***************************************************************************)

\* The device of the inputs with a given name.
DeviceNamed(name) == CHOOSE d \in Devices : d.name = name

\* The registry holds a variant for device d in d's family.
Appended(d) ==
    \E f \in 1..Len(families) :
        /\ families[f].name = d.family
        /\ \E v \in 1..Len(families[f].variants) :
                families[f].variants[v].name = d.name

\* The packages handed to the aggregator so far, and the devices of one.
Handed == {started[n].devices : n \in 1..Len(started)}

DevicesOf(package) == {package[k] : k \in 1..Len(package)}

\* The variant of device d in the registry; Appended(d) says there is one.
ChipOf(d) ==
    LET f == CHOOSE f \in 1..Len(families) :
                /\ families[f].name = d.family
                /\ \E v \in 1..Len(families[f].variants) :
                        families[f].variants[v].name = d.name
        v == CHOOSE v \in 1..Len(families[f].variants) :
                families[f].variants[v].name = d.name
    IN  families[f].variants[v]

Kinds(chip) == {chip.memory_map[k].kind : k \in 1..Len(chip.memory_map)}

\* C1: in every registry handle_package has built, no family holds two
\* flash algorithms whose names are equal after lowercasing.
C1_AlgorithmNamesUnique ==
    mode \in {"remote", "dir"} =>
        \A f \in 1..Len(families) :
            \A a, b \in 1..Len(families[f].flash_algorithms) :
                a # b =>
                    to_lowercase(families[f].flash_algorithms[a].name)
                        # to_lowercase(families[f].flash_algorithms[b].name)

\* The packs of a list whose download fails.
DownloadFailures(list) == {k \in 1..Len(list) : list[k].stage = "download"}

Without(list, k) == SubSeq(list, 1, k - 1) \o SubSeq(list, k + 1, Len(list))

\* The registry visit_arm_file leaves after the packs of a list, in order.
RECURSIVE RegistryAfter(_, _)
RegistryAfter(fams, list) ==
    IF list = <<>> THEN fams
    ELSE RegistryAfter(visit_arm_file(fams, Head(list)).families, Tail(list))

\* visit_arm_file ran on pack k: it handed the pack's descriptor to
\* handle_package, or logged why it could not.
Processed(k) ==
    \/ \E n \in 1..Len(started) : started[n].unit = <<0, k>>
    \/ \E n \in 1..Len(errors) : errors[n].unit = k

\* C2: in remote mode, when exactly one pack of the list fails to download,
\* visit_arm_files does not fail, and once it has returned every other pack
\* has been processed, the failure is logged, and the registry is the one
\* the list without the failing pack gives.
C2_OneDownloadFailureContained ==
    (mode = "remote" /\ Cardinality(DownloadFailures(packs)) = 1) =>
        LET k == CHOOSE k \in DownloadFailures(packs) : TRUE
        IN  /\ status # "err"
            /\ status = "ok" =>
                /\ \A j \in 1..Len(packs) : Processed(j)
                /\ \E n \in 1..Len(errors) :
                        errors[n].unit = k /\ errors[n].entry.at = "download"
                /\ families = RegistryAfter(<<>>, Without(packs, k))

\* A finished remote run whose first pack failed to download and whose later
\* pack filled the registry.
C2_Witness ==
    /\ mode = "remote" /\ status = "ok"
    /\ Len(packs) >= 2
    /\ DownloadFailures(packs) = {1}
    /\ packs[2].stage = "ok"
    /\ families # <<>>

\* C3: in remote mode, a call of visit_arm_file that fails (it logs an
\* error, at whichever step) leaves the registry as it found it.
C3_FailedPackLeavesRegistry ==
    [][(mode = "remote" /\ Len(errors') > Len(errors)) => families' = families]_vars

\* The memory of device d a region of its memory map was selected from.
SourceMemory(d, entry) ==
    CHOOSE m \in {d.memories[k] : k \in 1..Len(d.memories)} :
        Range(m) = entry.region.range

\* C4: every Ram entry of a memory map comes from a default region that is
\* readable, writable and not executable, and every Flash entry from a
\* default region that is readable, executable and not writable.
C4_RegionSelectionSound ==
    \A f \in 1..Len(families) :
        \A v \in 1..Len(families[f].variants) :
            LET chip == families[f].variants[v]
            IN  \A k \in 1..Len(chip.memory_map) :
                    LET m == SourceMemory(DeviceNamed(chip.name), chip.memory_map[k])
                    IN  /\ m.default /\ m.access.read
                        /\ chip.memory_map[k].kind = "Ram" =>
                                m.access.write /\ ~m.access.execute
                        /\ chip.memory_map[k].kind = "Flash" =>
                                m.access.execute /\ ~m.access.write

\* Device d has a default region that is readable and writable.
HasDefaultWritable(d) ==
    \E k \in 1..Len(d.memories) :
        /\ d.memories[k].default
        /\ d.memories[k].access.read /\ d.memories[k].access.write

\* Device d has a default region that is readable and executable.
HasDefaultExecutable(d) ==
    \E k \in 1..Len(d.memories) :
        /\ d.memories[k].default
        /\ d.memories[k].access.read /\ d.memories[k].access.execute

\* C5: a device handed to the aggregator that has no default region for the
\* Ram slot (or none for the Flash slot) does not stop the run and is a
\* variant of its family, with a memory map that lacks that entry and holds
\* at most one Ram and one Flash entry.
C5_MissingRegionTolerated ==
    \A package \in Handed :
        \A d \in DevicesOf(package) :
            (~HasDefaultWritable(d) \/ ~HasDefaultExecutable(d)) =>
                /\ status # "panic"
                /\ Appended(d)
                /\ ~HasDefaultWritable(d) => "Ram" \notin Kinds(ChipOf(d))
                /\ ~HasDefaultExecutable(d) => "Flash" \notin Kinds(ChipOf(d))
                /\ Len(ChipOf(d).memory_map) = Cardinality(Kinds(ChipOf(d)))

\* The core of device d is outside the table of the core mapping, or its
\* processor is asymmetric.
UnmappedCore(d) ==
    \/ d.processor.kind # "Symmetric"
    \/ d.processor.core \notin
        {"CortexM0", "CortexM0Plus", "CortexM3", "CortexM4", "CortexM33", "CortexM7"}

\* C6: a package with a device of an unmapped core or an asymmetric processor
\* is processed to its end: each of its devices is a variant of its family.
C6_UnmappedCoreNotFatal ==
    \A package \in Handed :
        (\E d \in DevicesOf(package) : UnmappedCore(d)) =>
            \A d \in DevicesOf(package) : Appended(d)

\* Device d references an algorithm file that is absent or that the
\* extractor rejects.
HasFailingAlgorithm(d) ==
    \E k \in 1..Len(d.algorithms) : d.algorithms[k].member # "ok"

\* The names of the algorithms of family name in the registry.
FamilyAlgorithmNames(name) ==
    UNION {{families[f].flash_algorithms[a].name :
                a \in 1..Len(families[f].flash_algorithms)} :
           f \in {g \in 1..Len(families) : families[g].name = name}}

\* C7: a package with a device one of whose algorithm files cannot be opened
\* or extracted is processed to its end: each of its devices is a variant
\* of its family, and the algorithms of the device that could be extracted
\* are in the family.
C7_AlgorithmFailureContained ==
    \A package \in Handed :
        (\E d \in DevicesOf(package) : HasFailingAlgorithm(d)) =>
            /\ status # "panic"
            /\ \A d \in DevicesOf(package) :
                /\ Appended(d)
                /\ HasFailingAlgorithm(d) =>
                    \A k \in 1..Len(d.algorithms) :
                        d.algorithms[k].member = "ok" =>
                            to_lowercase(d.algorithms[k].file_name)
                                \in FamilyAlgorithmNames(d.family)

\* The descriptors whose package was handed to the aggregator.
StartedUnits == {started[n].unit : n \in 1..Len(started)}

\* C9 as stated: when the walk of a directory tree has ended, package
\* processing has been started exactly once for each descriptor file of
\* the tree.
C9_TraversalComplete ==
    (mode \in {"dir", "main"} /\ status \in {"ok", "err", "panic"}) =>
        /\ StartedUnits = Descriptors(tree)
        /\ Len(started) = Cardinality(Descriptors(tree))

\* C9, amended: the walk starts package processing only for descriptor
\* files and at most once for each; when it returns Ok it has done so for
\* every descriptor file of the tree, whatever the order of the entries.
C9_TraversalCompleteWhenOk ==
    mode \in {"dir", "main"} =>
        /\ StartedUnits \subseteq Descriptors(tree)
        /\ Len(started) = Cardinality(StartedUnits)
        /\ status = "ok" =>
            /\ StartedUnits = Descriptors(tree)
            /\ Len(started) = Cardinality(Descriptors(tree))

\* A walk of visit_dirs that returned Ok after processing descriptors at
\* the third level of the tree.
C9_Witness ==
    /\ mode = "dir" /\ status = "ok"
    /\ Len(started) >= 3
    /\ \E u \in StartedUnits : u[1] # 1 /\ tree.parent[u[1]] # 1

(***************************************************************************)
(* Comparison runs: the same devices aggregated twice                      *)
(***************************************************************************)

\* The largest number of devices of a descriptor in the comparison runs.
MaxDevices == 2

\* The sequences of at most n devices with distinct names.
DeviceSeqs(n) ==
    {s \in SeqsUpTo(Devices, n) :
        s # <<>> /\ \A a, b \in 1..Len(s) : a # b => s[a].name # s[b].name}

\* The enumerations of the devices of package p.
Enumerations(p) ==
    {q \in DeviceSeqs(Len(p)) : Len(q) = Len(p) /\ DevicesOf(q) = DevicesOf(p)}

\* One package aggregated into a registry: by handle_package, whose Err
\* visit_arm_file logs before the next pack, or by the closure of main,
\* whose panic ends the run.
Aggregate(a, fams, package) ==
    IF a = "handle_package"
    THEN [families |-> handle_package(fams, package).families, panic |-> FALSE]
    ELSE LET r == MainCallback(fams, package)
         IN  [families |-> r.families, panic |-> r.status = "panic"]

StartRegistries(a) ==
    {<<>>, Aggregate(a, <<>>, <<D1>>).families, Aggregate(a, <<>>, <<D5>>).families}

Run(run, fams) == [run |-> run, pos |-> 1, families |-> fams, status |-> "running"]

\* The two runs start from the same registry.  "split": two devices of one
\* family, each in a package of its own, in either order.  "joint": one
\* package, its devices enumerated in two orders.
InitPair ==
    /\ mode = "none" /\ status = "idle" /\ families = <<>> /\ packs = <<>>
    /\ i = 0 /\ tree = [n |-> 0, parent |-> <<>>, content |-> <<>>]
    /\ stack = <<>> /\ started = <<>> /\ errors = <<>>
    /\ agg \in {"handle_package", "main"}
    /\ reg0 \in StartRegistries(agg)
    /\ shape \in {"split", "joint"}
    /\ IF shape = "split"
       THEN \E d1, d2 \in Devices :
                /\ d1.family = d2.family /\ d1.name # d2.name
                /\ A = Run(<<<<d1>>, <<d2>>>>, reg0)
                /\ B = Run(<<<<d2>>, <<d1>>>>, reg0)
       ELSE \E p \in DeviceSeqs(MaxDevices) :
                \E q \in Enumerations(p) :
                    /\ A = Run(<<p>>, reg0)
                    /\ B = Run(<<q>>, reg0)

\* A run after its next package.
Advance(r) ==
    LET next == Aggregate(agg, r.families, r.run[r.pos])
    IN  [run      |-> r.run,
         pos      |-> r.pos + 1,
         families |-> next.families,
         status   |-> IF next.panic THEN "panic"
                      ELSE IF r.pos = Len(r.run) THEN "done" ELSE "running"]

AggregateA ==
    /\ A.status = "running"
    /\ A' = Advance(A)
    /\ UNCHANGED <<agg, shape, reg0, B>>
    /\ UNCHANGED svars

AggregateB ==
    /\ B.status = "running"
    /\ B' = Advance(B)
    /\ UNCHANGED <<agg, shape, reg0, A>>
    /\ UNCHANGED svars

NextPair == AggregateA \/ AggregateB

SpecPair == InitPair /\ [][NextPair]_vars

\* The algorithms and the variants of the families of a name, as sets.
AlgorithmSet(fams, name) ==
    UNION {{fams[f].flash_algorithms[a] : a \in 1..Len(fams[f].flash_algorithms)} :
           f \in {g \in 1..Len(fams) : fams[g].name = name}}

VariantSet(fams, name) ==
    UNION {{fams[f].variants[v] : v \in 1..Len(fams[f].variants)} :
           f \in {g \in 1..Len(fams) : fams[g].name = name}}

SameFamilyRecords ==
    \A name \in {d.family : d \in Devices} :
        /\ AlgorithmSet(A.families, name) = AlgorithmSet(B.families, name)
        /\ VariantSet(A.families, name) = VariantSet(B.families, name)

BothDone == A.status = "done" /\ B.status = "done"

NewVariants(fams, f) ==
    SubSeq(fams[f].variants,
           IF f <= Len(reg0) THEN Len(reg0[f].variants) + 1 ELSE 1,
           Len(fams[f].variants))

\* The variants a run appended are in ascending order of their names.
AppendedAscending(fams) ==
    \A f \in 1..Len(fams) :
        \A a, b \in 1..Len(NewVariants(fams, f)) :
            a < b => StrCmp(NewVariants(fams, f)[a].name,
                            NewVariants(fams, f)[b].name) < 0

C11_ChipNamesUnique ==
    mode \in {"remote", "dir"} =>
        \A f \in 1..Len(families) :
            \A a, b \in 1..Len(families[f].variants) :
                a # b => families[f].variants[a].name
                            # families[f].variants[b].name

====
